---- MODULE Spec2Model ----
(***************************************************************************)
(* A model of src/utils.py: extract_authors, clean_author_names and        *)
(* create_author_count_dataframe.                                          *)
(*                                                                         *)
(* A Python str is a sequence of characters; a character is a one-element  *)
(* TLA+ string.  LongS stands for U+017F (LATIN SMALL LETTER LONG S), a    *)
(* lower-case character whose upper case is "S".                           *)
(***************************************************************************)
EXTENDS Naturals, Sequences, FiniteSets

VARIABLES
    pc,               \* which function runs and where it is
    Authors,          \* extract_authors: the column df['Authors']
    authors_list,     \* extract_authors: the list it returns
    author_list,      \* the parameter of clean_author_names / create_author_count_dataframe
    i,                \* clean_author_names: position of the for loop in author_list
    cleaned_authors,  \* clean_author_names: the list being built
    printed,          \* the lines print() has written
    raised,           \* the exception that left the function, "none" if none
    df,               \* create_author_count_dataframe: the table it returns
    df_again          \* the table of a second run on the keys read back from df

vars == <<pc, Authors, authors_list, author_list, i, cleaned_authors,
          printed, raised, df, df_again>>

(***************************************************************************)
(* Bounds of the model.                                                    *)
(***************************************************************************)
MaxNames == 2
MaxNameLen == 4
MaxKeys == 2
MaxKeyLen == 2
MaxFields == 2
MaxFieldLen == 3

(***************************************************************************)
(* Characters and Python's str methods.                                    *)
(***************************************************************************)
LongS == "U+017F"

NameChar == {"D", " "}
KeyChar == {"s", "j", LongS}
FieldChar == {"D", ",", " "}

\* str.isspace() of one character
IsSpace(c) == c = " "

\* str.lower() of one character
LowerChar(c) ==
    CASE c = "D" -> "d"
      [] c = "S" -> "s"
      [] c = "J" -> "j"
      [] OTHER -> c

\* str.upper() of one character
UpperChar(c) ==
    CASE c = "d" -> "D"
      [] c = "s" -> "S"
      [] c = "j" -> "J"
      [] c = LongS -> "S"
      [] OTHER -> c

\* str.lower()
str_lower(s) == [k \in 1..Len(s) |-> LowerChar(s[k])]

\* str.upper()
str_upper(s) == [k \in 1..Len(s) |-> UpperChar(s[k])]

\* str.capitalize(): first character upper-cased, the rest lower-cased
str_capitalize(s) ==
    IF s = <<>> THEN <<>> ELSE <<UpperChar(s[1])>> \o str_lower(Tail(s))

\* str.replace(' ', '')
RECURSIVE str_replace_space(_)
str_replace_space(s) ==
    IF s = <<>> THEN <<>>
    ELSE IF Head(s) = " " THEN str_replace_space(Tail(s))
    ELSE <<Head(s)>> \o str_replace_space(Tail(s))

\* str.split() with no separator: runs of whitespace separate the tokens and
\* no token is empty
RECURSIVE split_ws(_, _, _)
split_ws(s, cur, acc) ==
    IF s = <<>> THEN (IF cur = <<>> THEN acc ELSE Append(acc, cur))
    ELSE IF IsSpace(Head(s))
         THEN split_ws(Tail(s), <<>>, IF cur = <<>> THEN acc ELSE Append(acc, cur))
         ELSE split_ws(Tail(s), Append(cur, Head(s)), acc)

\* str.split(' '): every single space separates, so tokens may be empty
RECURSIVE split_space(_, _, _)
split_space(s, cur, acc) ==
    IF s = <<>> THEN Append(acc, cur)
    ELSE IF Head(s) = " "
         THEN split_space(Tail(s), <<>>, Append(acc, cur))
         ELSE split_space(Tail(s), Append(cur, Head(s)), acc)

\* name.split(' ') in place of name.split()
str_split_single_space(s) == split_space(s, <<>>, <<>>)

str_split(s) == split_ws(s, <<>>, <<>>)

\* A value of the list that is not a str (it has no split attribute), such as
\* the float NaN of a missing cell.
NotAString == <<"float('nan')">>

IsStr(v) == v # NotAString

Strings(chars, maxLen) == UNION {[1..n -> chars] : n \in 0..maxLen}

(***************************************************************************)
(* clean_author_names                                                      *)
(***************************************************************************)
RawNames == Strings(NameChar, MaxNameLen) \cup {NotAString}

\* line 44 as `len(name.split()) <= 1`
is_single_name_or_empty(name) == Len(str_split(name)) <= 1

\* line 44 left out
is_single_name_never(name) == FALSE

\* line 44: len(name.split()) == 1
is_single_name(name) == Len(str_split(name)) = 1

\* line 48 as `name.split()[1]`, the whole second token
try_body_whole_second_token(name) ==
    LET tokens == str_split(name) IN
    IF ~IsStr(name) THEN [exc |-> "AttributeError", cleaned |-> <<>>]
    ELSE IF Len(tokens) < 2 THEN [exc |-> "IndexError", cleaned |-> <<>>]
    ELSE [exc |-> "none",
          cleaned |-> str_replace_space(str_lower(tokens[1] \o tokens[2]))]

\* line 50 without .lower()
try_body_no_lower(name) ==
    LET tokens == str_split(name) IN
    IF ~IsStr(name) THEN [exc |-> "AttributeError", cleaned |-> <<>>]
    ELSE IF Len(tokens) < 2 THEN [exc |-> "IndexError", cleaned |-> <<>>]
    ELSE [exc |-> "none",
          cleaned |-> str_replace_space(tokens[1] \o <<tokens[2][1]>>)]

\* lines 47-50, the body of the try: the exception it raises, or the value of
\* `cleaned`
try_body(name) ==
    IF ~IsStr(name)
    THEN [exc |-> "AttributeError", cleaned |-> <<>>]
    ELSE LET tokens == str_split(name) IN
         IF Len(tokens) < 1
         THEN [exc |-> "IndexError", cleaned |-> <<>>]
         ELSE IF Len(tokens) < 2
         THEN [exc |-> "IndexError", cleaned |-> <<>>]
         ELSE IF Len(tokens[2]) < 1
         THEN [exc |-> "IndexError", cleaned |-> <<>>]
         ELSE LET last_name == tokens[1]
                  first_initial == <<tokens[2][1]>>
              IN  [exc |-> "none",
                   cleaned |-> str_replace_space(str_lower(last_name \o first_initial))]

\* print(e); print(f'Error: {name}')
diagnostic(exc, name) ==
    << <<(IF exc = "IndexError" THEN "list index out of range"
                                ELSE "object has no attribute 'split'"), <<>> >>,
       <<"Error: ", name>> >>

InitClean ==
    /\ pc = "clean_loop"
    /\ \E n \in 0..MaxNames : author_list \in [1..n -> RawNames]
    /\ i = 1
    /\ cleaned_authors = <<>>
    /\ printed = <<>>
    /\ raised = "none"
    /\ df = <<>>
    /\ df_again = <<>>
    /\ Authors = <<>>
    /\ authors_list = <<>>

\* line 44 on a value without split: the AttributeError is raised outside the
\* try and leaves the function
CleanRaise ==
    /\ pc = "clean_loop"
    /\ i <= Len(author_list)
    /\ ~IsStr(author_list[i])
    /\ pc' = "clean_raised"
    /\ raised' = "AttributeError"
    /\ UNCHANGED <<Authors, authors_list, author_list, i, cleaned_authors,
                   printed, df, df_again>>

\* lines 44-45: continue
CleanSkip ==
    /\ pc = "clean_loop"
    /\ i <= Len(author_list)
    /\ IsStr(author_list[i])
    /\ is_single_name(author_list[i])
    /\ i' = i + 1
    /\ UNCHANGED <<pc, Authors, authors_list, author_list, cleaned_authors,
                   printed, raised, df, df_again>>

\* lines 46-50 and 59: the try succeeds and the key is appended
CleanAppend ==
    /\ pc = "clean_loop"
    /\ i <= Len(author_list)
    /\ IsStr(author_list[i])
    /\ ~is_single_name(author_list[i])
    /\ try_body(author_list[i]).exc = "none"
    /\ cleaned_authors' = Append(cleaned_authors, try_body(author_list[i]).cleaned)
    /\ i' = i + 1
    /\ UNCHANGED <<pc, Authors, authors_list, author_list, printed, raised,
                   df, df_again>>

\* lines 51-58: the try raises AttributeError or IndexError; both handlers
\* print and break, and line 60 returns
CleanExcept ==
    /\ pc = "clean_loop"
    /\ i <= Len(author_list)
    /\ IsStr(author_list[i])
    /\ ~is_single_name(author_list[i])
    /\ try_body(author_list[i]).exc \in {"AttributeError", "IndexError"}
    /\ printed' = printed \o diagnostic(try_body(author_list[i]).exc, author_list[i])
    /\ pc' = "clean_returned"
    /\ UNCHANGED <<Authors, authors_list, author_list, i, cleaned_authors,
                   raised, df, df_again>>

\* line 42 with the list exhausted, line 60
CleanReturn ==
    /\ pc = "clean_loop"
    /\ i > Len(author_list)
    /\ pc' = "clean_returned"
    /\ UNCHANGED <<Authors, authors_list, author_list, i, cleaned_authors,
                   printed, raised, df, df_again>>

(***************************************************************************)
(* create_author_count_dataframe                                           *)
(***************************************************************************)
CanonicalKeys == Strings(KeyChar, MaxKeyLen)

\* name_counts is a dict: its entries in insertion order
\* name_counts.get(name, default)
dict_get(d, name, default) ==
    IF \E k \in 1..Len(d) : d[k].name = name
    THEN (CHOOSE e \in {d[k] : k \in 1..Len(d)} : e.name = name).count
    ELSE default

\* name_counts[name] = count that never finds the existing entry
dict_set_always_append(d, name, count) ==
    Append(d, [name |-> name, count |-> count])

\* name_counts[name] = count: an existing entry keeps its place, a new one goes last
dict_set(d, name, count) ==
    IF \E k \in 1..Len(d) : d[k].name = name
    THEN [k \in 1..Len(d) |->
            IF d[k].name = name THEN [name |-> name, count |-> count] ELSE d[k]]
    ELSE Append(d, [name |-> name, count |-> count])

\* lines 86-87
RECURSIVE count_names(_, _)
count_names(list, name_counts) ==
    IF list = <<>> THEN name_counts
    ELSE count_names(Tail(list),
                     dict_set(name_counts, Head(list),
                              dict_get(name_counts, Head(list), 0) + 1))

\* line 91 as f"{first_initial}{last_name}", the docstring's form
formatted_name_docstring(name) ==
    str_upper(<<name[Len(name)]>>) \o str_capitalize(SubSeq(name, 1, Len(name) - 1))

\* line 90 with name.capitalize() in place of name[0:-1].capitalize()
formatted_name_whole(name) ==
    str_upper(<<name[Len(name)]>>) \o <<".", " ">> \o str_capitalize(name)

\* lines 90-91: f"{first_initial}. {last_name}"
formatted_name(name) ==
    LET last_name == str_capitalize(SubSeq(name, 1, Len(name) - 1))
        first_initial == str_upper(<<name[Len(name)]>>)
    IN  first_initial \o <<".", " ">> \o last_name

\* lines 83-95: the rows of the DataFrame, or the IndexError of name[-1] on ''
create_author_count_dataframe(list) ==
    LET name_counts == count_names(list, <<>>) IN
    IF \E k \in 1..Len(name_counts) : name_counts[k].name = <<>>
    THEN [exc |-> "IndexError", rows |-> <<>>]
    ELSE [exc |-> "none",
          rows |-> [k \in 1..Len(name_counts) |->
                      [Count |-> name_counts[k].count,
                       Name |-> formatted_name(name_counts[k].name)]]]

InitAggregate ==
    /\ pc = "aggregate_call"
    /\ \E n \in 0..MaxKeys : author_list \in [1..n -> CanonicalKeys]
    /\ i = 1
    /\ cleaned_authors = <<>>
    /\ printed = <<>>
    /\ raised = "none"
    /\ df = <<>>
    /\ df_again = <<>>
    /\ Authors = <<>>
    /\ authors_list = <<>>

\* one call of create_author_count_dataframe(list), leaving at `returned` or,
\* with an exception, at `failed`
CallAggregator(list, returned, failed) ==
    LET r == create_author_count_dataframe(list) IN
    /\ pc' = (IF r.exc = "none" THEN returned ELSE failed)
    /\ raised' = r.exc
    /\ df' = r.rows
    /\ UNCHANGED <<Authors, authors_list, author_list, i, cleaned_authors,
                   printed, df_again>>

Aggregate ==
    /\ pc = "aggregate_call"
    /\ CallAggregator(author_list, "aggregate_returned", "aggregate_raised")

\* create_author_count_dataframe(clean_author_names(names))
AggregateCleaned ==
    /\ pc = "clean_returned"
    /\ CallAggregator(cleaned_authors, "pipeline_returned", "pipeline_raised")

\* The key read back from a display name: lower case of the part after the
\* first ". " followed by the lower case of the initial before it.
key_of_display(display) ==
    LET p == CHOOSE q \in 1..Len(display) :
                 /\ q < Len(display) /\ display[q] = "." /\ display[q + 1] = " "
                 /\ \A r \in 1..(q - 1) : ~(display[r] = "." /\ display[r + 1] = " ")
    IN  str_lower(SubSeq(display, p + 2, Len(display)))
          \o str_lower(SubSeq(display, 1, p - 1))

\* the keys read back from a table, each repeated Count times
RECURSIVE repeat(_, _)
repeat(x, n) == IF n = 0 THEN <<>> ELSE <<x>> \o repeat(x, n - 1)

RECURSIVE keys_of_table(_)
keys_of_table(rows) ==
    IF rows = <<>> THEN <<>>
    ELSE repeat(key_of_display(Head(rows).Name), Head(rows).Count)
           \o keys_of_table(Tail(rows))

\* a second run of the aggregator on the keys read back from its own table
Reaggregate ==
    /\ pc = "aggregate_returned"
    /\ LET r == create_author_count_dataframe(keys_of_table(df)) IN
       /\ pc' = (IF r.exc = "none" THEN "reaggregate_returned" ELSE "reaggregate_raised")
       /\ raised' = r.exc
       /\ df_again' = r.rows
    /\ UNCHANGED <<Authors, authors_list, author_list, i, cleaned_authors,
                   printed, df>>

(***************************************************************************)
(* extract_authors                                                         *)
(***************************************************************************)
AuthorFields == Strings(FieldChar, MaxFieldLen)

\* str.split(', '): the pieces between the occurrences of ', ', found left to
\* right without overlap
RECURSIVE split_on(_, _, _)
split_on(s, cur, acc) ==
    IF s = <<>> THEN Append(acc, cur)
    ELSE IF Len(s) >= 2 /\ s[1] = "," /\ s[2] = " "
         THEN split_on(SubSeq(s, 3, Len(s)), <<>>, Append(acc, cur))
         ELSE split_on(Tail(s), Append(cur, Head(s)), acc)

\* str.split(','): the separator without its space
RECURSIVE split_on_comma(_, _, _)
split_on_comma(s, cur, acc) ==
    IF s = <<>> THEN Append(acc, cur)
    ELSE IF Head(s) = ","
         THEN split_on_comma(Tail(s), <<>>, Append(acc, cur))
         ELSE split_on_comma(Tail(s), Append(cur, Head(s)), acc)

str_split_sep_comma(s) == split_on_comma(s, <<>>, <<>>)

str_split_sep(s) == split_on(s, <<>>, <<>>)

\* Series.explode().tolist(): the elements of the lists, row after row
RECURSIVE explode(_)
explode(lists) ==
    IF lists = <<>> THEN <<>> ELSE Head(lists) \o explode(Tail(lists))

\* line 22
extract_authors(column) ==
    explode([k \in 1..Len(column) |-> str_split_sep(column[k])])

InitExtract ==
    /\ pc = "extract_call"
    /\ \E n \in 0..MaxFields : Authors \in [1..n -> AuthorFields]
    /\ authors_list = <<>>
    /\ author_list = <<>>
    /\ i = 1
    /\ cleaned_authors = <<>>
    /\ printed = <<>>
    /\ raised = "none"
    /\ df = <<>>
    /\ df_again = <<>>

Extract ==
    /\ pc = "extract_call"
    /\ authors_list' = extract_authors(Authors)
    /\ pc' = "extract_returned"
    /\ UNCHANGED <<Authors, author_list, i, cleaned_authors, printed, raised,
                   df, df_again>>

(***************************************************************************)
(* Specifications                                                          *)
(***************************************************************************)
Next ==
    \/ CleanRaise
    \/ CleanSkip
    \/ CleanAppend
    \/ CleanExcept
    \/ CleanReturn
    \/ AggregateCleaned

\* clean_author_names on every list of raw names, then the aggregator on its result
Spec == InitClean /\ [][Next]_vars

NextAggregate == Aggregate \/ Reaggregate

\* create_author_count_dataframe on every list of keys, then on its own table
SpecAggregate == InitAggregate /\ [][NextAggregate]_vars

NextExtract == Extract

\* extract_authors on every column of author fields
SpecExtract == InitExtract /\ [][NextExtract]_vars

(***************************************************************************)
(* Properties of clean_author_names (under Spec)                           *)
(***************************************************************************)
\* clean_author_names has returned (and the aggregator may have run on its result)
Returned == pc \in {"clean_returned", "pipeline_returned", "pipeline_raised"}

TokenCount(name) == Len(str_split(name))

\* lowercase(tokens[0] + first character of tokens[1])
ExpectedKey(name) ==
    LET tokens == str_split(name) IN
    [k \in 1..(Len(tokens[1]) + 1) |->
        IF k <= Len(tokens[1]) THEN LowerChar(tokens[1][k])
                               ELSE LowerChar(tokens[2][1])]

\* the keys of the names of at least two tokens, in the order of the names
RECURSIVE ExpectedKeys(_)
ExpectedKeys(names) ==
    IF names = <<>> THEN <<>>
    ELSE IF TokenCount(Head(names)) >= 2
         THEN <<ExpectedKey(Head(names))>> \o ExpectedKeys(Tail(names))
         ELSE ExpectedKeys(Tail(names))

\* one word followed by whitespace, such as 'Doe '
OneWordThenSpace(name) ==
    /\ IsStr(name)
    /\ Len(name) >= 2
    /\ ~IsSpace(name[1])
    /\ IsSpace(name[Len(name)])
    /\ \A k \in 1..(Len(name) - 1) : IsSpace(name[k]) => IsSpace(name[k + 1])

\* the two lines the IndexError handler prints for a name
NamedInDiagnostic(name) == \E k \in 1..Len(printed) : printed[k] = <<"Error: ", name>>

C2_TrailingSpaceHalts ==
    Returned =>
        \A k \in 1..Len(author_list) :
            (OneWordThenSpace(author_list[k]) /\ i >= k)
            => /\ i = k
               /\ NamedInDiagnostic(author_list[k])
               /\ cleaned_authors = ExpectedKeys(SubSeq(author_list, 1, k - 1))

\* C2 amended: a name of one word followed by whitespace that the loop reaches
\* is passed over: the loop goes on past it, no diagnostic names it, and the
\* keys returned are those of all the names up to where the loop ended.
C2_TrailingSpaceSkipped ==
    Returned =>
        \A k \in 1..Len(author_list) :
            (OneWordThenSpace(author_list[k]) /\ i >= k)
            => /\ i > k
               /\ ~NamedInDiagnostic(author_list[k])
               /\ cleaned_authors = ExpectedKeys(SubSeq(author_list, 1, i - 1))

\* ['Doe ', 'Smith J.'] has returned ['smithj'] and printed nothing
C2_Witness ==
    /\ Returned
    /\ Len(author_list) = 2
    /\ OneWordThenSpace(author_list[1])
    /\ IsStr(author_list[2]) /\ TokenCount(author_list[2]) >= 2
    /\ cleaned_authors = <<ExpectedKey(author_list[2])>>
    /\ printed = <<>>

\* C3 as stated: when the loop reaches an element that is not a string, no
\* exception leaves the function: it prints a diagnostic naming the element,
\* halts there and returns the keys accumulated before it.
C3_NonStringHandled ==
    (pc # "clean_loop") =>
        \A k \in 1..Len(author_list) :
            (/\ ~IsStr(author_list[k])
             /\ i >= k
             /\ \A j \in 1..(k - 1) : IsStr(author_list[j]))
            => /\ raised = "none"
               /\ Returned
               /\ i = k
               /\ NamedInDiagnostic(author_list[k])
               /\ cleaned_authors = ExpectedKeys(SubSeq(author_list, 1, k - 1))

\* the step of the loop on a name of exactly one token
AtSingleToken ==
    /\ pc = "clean_loop"
    /\ i <= Len(author_list)
    /\ IsStr(author_list[i])
    /\ TokenCount(author_list[i]) = 1

\* C4: a name of exactly one token is skipped silently: the step on it adds no
\* key, prints nothing, raises nothing and leaves the loop running at the next
\* name; so a list of names of one token or of two and more returns the keys of
\* all its names of two and more tokens, with nothing printed.
C4_SingleTokenSkipped ==
    /\ [][AtSingleToken =>
            /\ pc' = "clean_loop"
            /\ i' = i + 1
            /\ cleaned_authors' = cleaned_authors
            /\ printed' = printed
            /\ raised' = raised]_vars
    /\ [](( /\ Returned
            /\ \A k \in 1..Len(author_list) :
                   IsStr(author_list[k]) /\ TokenCount(author_list[k]) >= 1)
          => /\ printed = <<>>
             /\ cleaned_authors = ExpectedKeys(author_list))

\* ['SingleName', 'Doe J.'] has returned ['doej'] and printed nothing
C4_Witness ==
    /\ Returned
    /\ Len(author_list) = 2
    /\ IsStr(author_list[1]) /\ TokenCount(author_list[1]) = 1
    /\ ~OneWordThenSpace(author_list[1])
    /\ IsStr(author_list[2]) /\ TokenCount(author_list[2]) >= 2
    /\ cleaned_authors = <<ExpectedKey(author_list[2])>>
    /\ printed = <<>>

\* C9: a name of zero tokens (empty or all whitespace) that the loop reaches
\* halts the pass: the function returns exactly the keys of the names of two
\* and more tokens before the first such name, with the diagnostic of the
\* IndexError naming it, and no name after it is looked at.
C9_ZeroTokenHalts ==
    Returned =>
        \A k \in 1..Len(author_list) :
            (/\ IsStr(author_list[k]) /\ TokenCount(author_list[k]) = 0
             /\ \A j \in 1..(k - 1) :
                    IsStr(author_list[j]) /\ TokenCount(author_list[j]) >= 1)
            => /\ i = k
               /\ printed = diagnostic("IndexError", author_list[k])
               /\ cleaned_authors = ExpectedKeys(SubSeq(author_list, 1, k - 1))

\* a zero-token name followed by a well-formed name has returned no key
C9_Witness ==
    /\ Returned
    /\ Len(author_list) = 2
    /\ IsStr(author_list[1]) /\ TokenCount(author_list[1]) = 0
    /\ Len(author_list[1]) >= 1
    /\ IsStr(author_list[2]) /\ TokenCount(author_list[2]) >= 2
    /\ cleaned_authors = <<>>
    /\ NamedInDiagnostic(author_list[1])

RECURSIVE SumCounts(_)
SumCounts(rows) ==
    IF rows = <<>> THEN 0 ELSE Head(rows).Count + SumCounts(Tail(rows))

\* C10: every key clean_author_names returns is the key of an input name of at
\* least two tokens, has at least two characters, holds no whitespace and is
\* its own lower case; the aggregator never fails on the returned list, and
\* the sum of its Counts is the number of keys returned, at most the number of
\* input names of at least two tokens.
C10_PipelineInvariant ==
    /\ Returned =>
         \A k \in 1..Len(cleaned_authors) :
            LET key == cleaned_authors[k] IN
            /\ Len(key) >= 2
            /\ \A c \in 1..Len(key) : ~IsSpace(key[c]) /\ LowerChar(key[c]) = key[c]
            /\ \E n \in 1..Len(author_list) :
                  /\ IsStr(author_list[n])
                  /\ TokenCount(author_list[n]) >= 2
                  /\ key = ExpectedKey(author_list[n])
    /\ pc # "pipeline_raised"
    /\ pc = "pipeline_returned" =>
         /\ raised = "none"
         /\ SumCounts(df) = Len(cleaned_authors)
         /\ Len(cleaned_authors) <=
              Cardinality({n \in 1..Len(author_list) :
                             IsStr(author_list[n]) /\ TokenCount(author_list[n]) >= 2})

\* the aggregator has counted two equal keys that clean_author_names returned
C10_Witness ==
    /\ pc = "pipeline_returned"
    /\ Len(cleaned_authors) = 2
    /\ Len(df) = 1
    /\ df[1].Count = 2

(***************************************************************************)
(* Properties of create_author_count_dataframe (under SpecAggregate)       *)
(***************************************************************************)
\* the first call of the aggregator has returned its table
Aggregated == pc \in {"aggregate_returned", "reaggregate_returned", "reaggregate_raised"}

\* a well-formed key: at least two characters, its own lower case
WellFormedKey(key) ==
    /\ Len(key) >= 2
    /\ \A c \in 1..Len(key) : LowerChar(key[c]) = key[c]

\* the distinct elements of a list in the order of their first occurrence
RECURSIVE FirstSeen(_, _)
FirstSeen(list, seen) ==
    IF list = <<>> THEN seen
    ELSE IF \E k \in 1..Len(seen) : seen[k] = Head(list)
         THEN FirstSeen(Tail(list), seen)
         ELSE FirstSeen(Tail(list), Append(seen, Head(list)))

DistinctKeys == FirstSeen(author_list, <<>>)

Occurrences(list, key) == Cardinality({k \in 1..Len(list) : list[k] = key})

\* "<upper(last character)>. <capitalize(all but the last character)>"
ExpectedDisplay(key) ==
    LET n == Len(key) IN
    [k \in 1..(n + 2) |->
        IF k = 1 THEN UpperChar(key[n])
        ELSE IF k = 2 THEN "."
        ELSE IF k = 3 THEN " "
        ELSE IF k = 4 THEN UpperChar(key[1])
        ELSE LowerChar(key[k - 3])]

Counts(rows) == [r \in 1..Len(rows) |-> rows[r].Count]

\* C7 as stated: for well-formed keys, the key read back from a row's Name is
\* the row's key, no two rows have the same Name, and the aggregator run on
\* the keys read back from its own table gives the same Counts.
C7_RoundTrip ==
    (/\ pc \in {"reaggregate_returned", "reaggregate_raised"}
     /\ \A k \in 1..Len(author_list) : WellFormedKey(author_list[k]))
    => /\ pc = "reaggregate_returned"
       /\ \A r \in 1..Len(df) : key_of_display(df[r].Name) = DistinctKeys[r]
       /\ \A r, q \in 1..Len(df) : r # q => df[r].Name # df[q].Name
       /\ Counts(df_again) = Counts(df)

\* a character that lower-casing restores from its upper case
CaseStable(c) == LowerChar(UpperChar(c)) = c

\* C7 amended: the same, for well-formed keys made only of characters that
\* lower-casing restores from their upper case.
C7_RoundTripCaseStable ==
    (/\ pc \in {"reaggregate_returned", "reaggregate_raised"}
     /\ \A k \in 1..Len(author_list) :
            /\ WellFormedKey(author_list[k])
            /\ \A c \in 1..Len(author_list[k]) : CaseStable(author_list[k][c]))
    => /\ pc = "reaggregate_returned"
       /\ \A r \in 1..Len(df) : key_of_display(df[r].Name) = DistinctKeys[r]
       /\ \A r, q \in 1..Len(df) : r # q => df[r].Name # df[q].Name
       /\ Counts(df_again) = Counts(df)

\* two different case-stable keys have gone through the table and back
C7_Witness ==
    /\ pc = "reaggregate_returned"
    /\ Len(author_list) = 2
    /\ author_list[1] # author_list[2]
    /\ \A k \in 1..2 :
           /\ WellFormedKey(author_list[k])
           /\ \A c \in 1..Len(author_list[k]) : CaseStable(author_list[k][c])
    /\ keys_of_table(df) = author_list
    /\ df_again = df

(***************************************************************************)
(* Properties of extract_authors (under SpecExtract)                       *)
(***************************************************************************)
\* str.count(', '): the occurrences of the delimiter, left to right without overlap
RECURSIVE DelimiterCount(_)
DelimiterCount(s) ==
    IF Len(s) < 2 THEN 0
    ELSE IF s[1] = "," /\ s[2] = " " THEN 1 + DelimiterCount(SubSeq(s, 3, Len(s)))
    ELSE DelimiterCount(Tail(s))

\* ', '.join(pieces)
RECURSIVE Join(_)
Join(pieces) ==
    IF Len(pieces) = 0 THEN <<>>
    ELSE IF Len(pieces) = 1 THEN pieces[1]
    ELSE pieces[1] \o <<",", " ">> \o Join(Tail(pieces))

\* the number of names the fields before field f contribute
RECURSIVE NamesBefore(_, _)
NamesBefore(column, f) ==
    IF f <= 1 THEN 0
    ELSE NamesBefore(column, f - 1) + DelimiterCount(column[f - 1]) + 1

\* C8: the returned list is the fields' pieces in field order: field f
\* contributes DelimiterCount + 1 consecutive names, none holding the
\* delimiter, that joined by ', ' give the field back (so a field without
\* delimiter contributes itself), and the list is as long as the sum over the
\* fields of DelimiterCount + 1.
C8_ExtractSplitsInOrder ==
    (pc = "extract_returned") =>
        /\ Len(authors_list) = NamesBefore(Authors, Len(Authors) + 1)
        /\ \A f \in 1..Len(Authors) :
              LET first == NamesBefore(Authors, f) + 1
                  last == NamesBefore(Authors, f + 1)
                  pieces == SubSeq(authors_list, first, last)
              IN  /\ Len(pieces) = DelimiterCount(Authors[f]) + 1
                  /\ Join(pieces) = Authors[f]
                  /\ \A k \in 1..Len(pieces) : DelimiterCount(pieces[k]) = 0
                  /\ DelimiterCount(Authors[f]) = 0 => pieces = <<Authors[f]>>

\* a field of two names followed by a field of one has given three names
C8_Witness ==
    /\ pc = "extract_returned"
    /\ Len(Authors) = 2
    /\ DelimiterCount(Authors[1]) = 1
    /\ DelimiterCount(Authors[2]) = 0
    /\ Authors[2] # <<>>
    /\ Len(authors_list) = 3
    /\ authors_list[1] # <<>>
    /\ authors_list[3] = Authors[2]

====
